---- MODULE Spec2Model ----
(***************************************************************************)
(* Model of placement/constructive_mapper_from_fractional.py: the          *)
(* ConstructiveMapperFromFractional mapper, its Item and Bin records, the  *)
(* locality pruning step and the stages of map().                          *)
(*                                                                         *)
(* Python objects are modelled by their position in the mapper's lists:    *)
(* an Item is its index in self.items, a Bin its index in self.bins (both  *)
(* lists are only ever appended to).  Object identity ("is") is equality   *)
(* of indices; dict equality ("==", used by "in" and list.remove) is       *)
(* equality of the dict contents, see ItemEq and BinEq.                    *)
(* Preferences are kept in units of epsilon (1e-3), so that they stay      *)
(* integers; the fractional objective is kept in the same unit.            *)
(***************************************************************************)
EXTENDS Integers, Sequences, FiniteSets, TLC

\* ------------------------------------------------------------------ bounds
\* most nodes of an infrastructure graph given to one map() call
MaxBins == 3
\* most nodes of a service graph given to one map() call
MaxItems == 2
\* most Items, and most Bins, a mapper holds after a map() call that is not
\* its first
MaxReuse == 2
\* the same, for the runs that reuse a mapper more (SpecLongReuse)
MaxLongReuse == 3

\* the improver moves of one map() call that the moves counter tells apart:
\* it stops counting at MaxMoves
MaxMoves == 2

\* 1 / epsilon: preferences and the fractional objective are stored times this
EpsInv == 1000
\* epsilon, in the unit 1 / EpsInv
epsilon == 1

\* Optional values: None, or a value wrapped in a one-element sequence.
None == <<>>
Some(v) == <<v>>
Val(o) == o[1]

\* ------------------------------------------------------------ input graphs
\* node attributes of the infrastructure graphs the model is run on
BinKinds ==
    { [capacity |-> 4,  fixed_cost |-> 0, unit_cost |-> 5],
      [capacity |-> 10, fixed_cost |-> 0, unit_cost |-> 1],
      [capacity |-> 4,  fixed_cost |-> 8, unit_cost |-> 1] }

\* node attributes of the service graphs: the demand and the optional
\* locality constraint (None: the attribute is absent; 9 is the id of no node)
ItemKinds ==
    { [weight |-> 3, loc |-> None],
      [weight |-> 5, loc |-> None],
      [weight |-> 3, loc |-> Some({1})],
      [weight |-> 3, loc |-> Some({2, 3})],
      [weight |-> 3, loc |-> Some({9})] }

\* infra.nodes(data=True): node ids are 1..n in iteration order
InfraGraphs(n) ==
    UNION { { [k \in 1..m |-> [id |-> k, capacity |-> f[k].capacity,
                               fixed_cost |-> f[k].fixed_cost,
                               unit_cost |-> f[k].unit_cost]] :
              f \in [1..m -> BinKinds] } : m \in 0..n }

\* ns.nodes(data=True)
ServiceGraphs(n) ==
    UNION { { [k \in 1..m |-> [id |-> k, weight |-> f[k].weight, loc |-> f[k].loc]] :
              f \in [1..m -> ItemKinds] } : m \in 0..n }

\* ----------------------------------------------------------- entity model
\* Item.__init__: mapped_to None, possible_bins the list given
Item(n, node_dict, possible_bins) ==
    [id |-> n, weight |-> node_dict.weight, loc |-> node_dict.loc,
     mapped_to |-> None, possible_bins |-> possible_bins]

\* Bin.__init__: preference None, mapped_here the list given
Bin(n, node_dict, mapped_here) ==
    [id |-> n, capacity |-> node_dict.capacity, fixed_cost |-> node_dict.fixed_cost,
     unit_cost |-> node_dict.unit_cost, mapped_here |-> mapped_here,
     preference |-> None]

\* dict equality of two Items: the dict holds seq, id, node_dict, weight
ItemEq(a, b) == a.id = b.id /\ a.weight = b.weight /\ a.loc = b.loc

\* dict equality of two Bins: seq, id, capacity, fixed_cost, unit_cost, node_dict
BinEq(a, b) ==
    /\ a.id = b.id
    /\ a.capacity = b.capacity
    /\ a.fixed_cost = b.fixed_cost
    /\ a.unit_cost = b.unit_cost

\* "x in lst" for a list of Item objects: identity or dict equality
ItemIn(its, i, lst) == \E k \in 1..Len(lst) : lst[k] = i \/ ItemEq(its[lst[k]], its[i])

\* "b in lst" for a list of Bin objects
BinIn(bns, b, lst) == \E k \in 1..Len(lst) : lst[k] = b \/ BinEq(bns[lst[k]], bns[b])

\* position of the first element of lst equal to Item i (0: none)
ItemIndex(its, i, lst) ==
    IF ItemIn(its, i, lst)
    THEN CHOOSE k \in 1..Len(lst) :
            /\ (lst[k] = i \/ ItemEq(its[lst[k]], its[i]))
            /\ \A j \in 1..(k - 1) : ~(lst[j] = i \/ ItemEq(its[lst[j]], its[i]))
    ELSE 0

\* position of the first element of lst equal to Bin b (0: none)
BinIndex(bns, b, lst) ==
    IF BinIn(bns, b, lst)
    THEN CHOOSE k \in 1..Len(lst) :
            /\ (lst[k] = b \/ BinEq(bns[lst[k]], bns[b]))
            /\ \A j \in 1..(k - 1) : ~(lst[j] = b \/ BinEq(bns[lst[j]], bns[b]))
    ELSE 0

\* lst without its k-th element
DropAt(lst, k) == SubSeq(lst, 1, k - 1) \o SubSeq(lst, k + 1, Len(lst))

\* list.remove(x) on a list of Items: drops the first element equal to x
ItemRemove(its, i, lst) == DropAt(lst, ItemIndex(its, i, lst))

\* list.remove(x) on a list of Bins
BinRemove(bns, b, lst) == DropAt(lst, BinIndex(bns, b, lst))

RECURSIVE SumWeights(_, _)
\* sum(map(lambda i: i['weight'], lst)) for a list of Item indices
SumWeights(its, lst) ==
    IF lst = <<>> THEN 0 ELSE its[Head(lst)].weight + SumWeights(its, Tail(lst))

\* Bin.total_load
total_load(its, bns, b) == SumWeights(its, bns[b].mapped_here)

\* is_overloaded with the number of hosted items in the place of their load
is_overloaded_counting_items(its, bns, b) == bns[b].capacity < Len(bns[b].mapped_here)

\* Bin.is_overloaded
is_overloaded(its, bns, b) == bns[b].capacity < total_load(its, bns, b)

\* Bin.does_item_fit
does_item_fit(its, bns, b, i) ==
    bns[b].capacity >= total_load(its, bns, b) + its[i].weight

\* Bin.get_variable_cost_of_mapping
get_variable_cost_of_mapping(its, bns, b, i) == its[i].weight * bns[b].unit_cost

\* Bin.filled_unit_cost as an exact fraction num / den, or +infinity
filled_unit_cost(bin) ==
    IF bin.capacity > 0
    THEN [inf |-> FALSE, num |-> bin.fixed_cost + bin.unit_cost * bin.capacity,
          den |-> bin.capacity]
    ELSE [inf |-> TRUE, num |-> 0, den |-> 1]

\* x < y on filled unit costs
CostLess(x, y) ==
    IF x.inf THEN FALSE
    ELSE IF y.inf THEN TRUE
    ELSE x.num * y.den < y.num * x.den

\* ConstructiveMapperFromFractional.total_item_weight
total_item_weight(its) == SumWeights(its, [k \in 1..Len(its) |-> k])

\* one insertion of the stable sort: b goes after every element whose key is
\* not greater than its own
SortedInsert(bns, sorted, b) ==
    LET later == { k \in 1..Len(sorted) :
                     CostLess(filled_unit_cost(bns[b]), filled_unit_cost(bns[sorted[k]])) }
        pos == IF later = {} THEN Len(sorted) + 1
               ELSE CHOOSE k \in later : \A j \in later : k <= j
    IN  SubSeq(sorted, 1, pos - 1) \o <<b>> \o SubSeq(sorted, pos, Len(sorted))

RECURSIVE SortPrefix(_, _)
\* the first n bins of self.bins, stably sorted by filled_unit_cost
SortPrefix(bns, n) ==
    IF n = 0 THEN <<>> ELSE SortedInsert(bns, SortPrefix(bns, n - 1), n)

\* self.bins in list order, the sort forgotten
get_bins_in_list_order(bns) == [k \in 1..Len(bns) |-> k]

\* get_bins_sorted_by_filled_unit_cost: sorted() is stable
get_bins_sorted_by_filled_unit_cost(bns) == SortPrefix(bns, Len(bns))

\* ------------------------------------------------------------ building
\* the Items appended for the nodes of ns, with possible_bins=[]
NewItems(ns) == [k \in 1..Len(ns) |-> Item(ns[k].id, ns[k], <<>>)]

\* the Bins constructed for the nodes of infra that are kept:
\* bin['capacity'] >= min_weighted_item['weight']
NewBins(infra, min_weight) ==
    LET Kept(node) == node.capacity >= min_weight
        kept == SelectSeq(infra, Kept)
    IN  [k \in 1..Len(kept) |-> Bin(kept[k].id, kept[k], <<>>)]

\* min(self.items, key=weight)['weight'], for a non-empty list
MinWeight(its) ==
    CHOOSE w \in { its[k].weight : k \in 1..Len(its) } :
        \A k \in 1..Len(its) : w <= its[k].weight

\* get_base_bin_packing_problem: appends to self.items and self.bins, then
\* extends every item's possible_bins with the whole of self.bins.
\* exc: "" (returned), "ValueError" (min of an empty list) or
\* "UnfeasibleBinPacking" (no bin at all)
get_base_bin_packing_problem(its, bns, infra, ns) ==
    LET its1 == its \o NewItems(ns)
    IN  IF its1 = <<>>
        THEN [items |-> its, bins |-> bns, exc |-> "ValueError"]
        ELSE LET bns1 == bns \o NewBins(infra, MinWeight(its1))
                 all  == [k \in 1..Len(bns1) |-> k]
             IN  IF bns1 = <<>>
                 THEN [items |-> its1, bins |-> bns1, exc |-> "UnfeasibleBinPacking"]
                 ELSE [items |-> [i \in 1..Len(its1) |->
                                    [its1[i] EXCEPT !.possible_bins = @ \o all]],
                       bins |-> bns1, exc |-> ""]

\* ------------------------------------------------------------- pruning
RECURSIVE PruneLoopWithoutCopy(_, _, _, _)
\* the loop run over item.possible_bins itself: a removal shifts the list
\* under the iterator, which steps over the element that follows
PruneLoopWithoutCopy(bns, allowed, copy, possible) ==
    IF copy = <<>> THEN possible
    ELSE IF bns[Head(copy)].id \notin allowed
         THEN PruneLoopWithoutCopy(bns, allowed,
                                   IF Len(copy) >= 2 THEN Tail(Tail(copy)) ELSE <<>>,
                                   BinRemove(bns, Head(copy), possible))
         ELSE PruneLoopWithoutCopy(bns, allowed, Tail(copy), possible)

RECURSIVE PruneLoop(_, _, _, _)
\* for bin in list(item.possible_bins): remove it when its id is not allowed
PruneLoop(bns, allowed, copy, possible) ==
    IF copy = <<>> THEN possible
    ELSE PruneLoop(bns, allowed, Tail(copy),
                   IF bns[Head(copy)].id \notin allowed
                   THEN BinRemove(bns, Head(copy), possible)
                   ELSE possible)

\* a pruning step that removes nothing
prune_nothing(its, bns) == its

\* PruneLocalityConstraints.prune_possible_mappings: the items afterwards
\* (the bins are returned as they are)
prune_possible_mappings(its, bns) ==
    [i \in 1..Len(its) |->
        IF its[i].loc # None
        THEN [its[i] EXCEPT !.possible_bins =
                 PruneLoop(bns, Val(its[i].loc), its[i].possible_bins,
                           its[i].possible_bins)]
        ELSE its[i]]

\* ----------------------------------------------------------- relaxation
RECURSIVE SumCapacity(_, _)
\* the sum of bin['capacity'] over a list of Bin indices
SumCapacity(bns, lst) ==
    IF lst = <<>> THEN 0 ELSE bns[Head(lst)].capacity + SumCapacity(bns, Tail(lst))

\* InitialPreference with the last best bin filled to its capacity as well
InitialPreferenceFilled(its, bns, original_best_bins, total_bin_capacity, k) ==
    bns[original_best_bins[k]].capacity * EpsInv

\* the preference set_initial_bin_preferences gives the k-th best bin
InitialPreference(its, bns, original_best_bins, total_bin_capacity, k) ==
    LET b == original_best_bins[k]
    IN  IF b = original_best_bins[Len(original_best_bins)]
        THEN (total_item_weight(its) - (total_bin_capacity - bns[b].capacity)) * EpsInv
        ELSE bns[b].capacity * EpsInv

RECURSIVE InitialPreferencesLoop(_, _, _, _, _, _, _)
\* the loop of set_initial_bin_preferences from the k-th best bin on
InitialPreferencesLoop(its, bns, original_best_bins, total_bin_capacity, k, min_pref, frac) ==
    IF k > Len(original_best_bins)
    THEN [bins |-> bns, min_bin_preference |-> min_pref,
          objective_value_of_fractional_opt |-> Some(frac)]
    ELSE LET b == original_best_bins[k]
             p == InitialPreference(its, bns, original_best_bins, total_bin_capacity, k)
         IN  InitialPreferencesLoop(its,
                 [bns EXCEPT ![b].preference = Some(p)],
                 original_best_bins, total_bin_capacity, k + 1,
                 IF min_pref = None \/ p < Val(min_pref) THEN Some(p) ELSE min_pref,
                 frac + bns[b].fixed_cost * EpsInv + p * bns[b].unit_cost)

\* set_initial_bin_preferences (min_pref starts at +infinity, here None)
set_initial_bin_preferences(its, bns, original_best_bins, total_bin_capacity) ==
    InitialPreferencesLoop(its, bns, original_best_bins, total_bin_capacity, 1, None, 0)

\* FirstCovering with ">" in the place of ">="
FirstStrictlyCovering(its, bns, sorted_bins) ==
    LET covering == { k \in 1..Len(sorted_bins) :
                        SumCapacity(bns, SubSeq(sorted_bins, 1, k)) > total_item_weight(its) }
    IN  IF covering = {} THEN 0 ELSE CHOOSE k \in covering : \A j \in covering : k <= j

\* the number of sorted bins get_fist_best_bins appends before it returns:
\* the first k with cumulative capacity >= total item weight (0: the loop ends)
FirstCovering(its, bns, sorted_bins) ==
    LET covering == { k \in 1..Len(sorted_bins) :
                        SumCapacity(bns, SubSeq(sorted_bins, 1, k)) >= total_item_weight(its) }
    IN  IF covering = {} THEN 0 ELSE CHOOSE k \in covering : \A j \in covering : k <= j

\* get_fist_best_bins
get_fist_best_bins(its, bns) ==
    LET sorted_bins == get_bins_sorted_by_filled_unit_cost(bns)
        k == FirstCovering(its, bns, sorted_bins)
        best == SubSeq(sorted_bins, 1, k)
    IN  IF k = 0
        THEN [best_bins |-> <<>>, bins |-> bns, min_bin_preference |-> None,
              objective_value_of_fractional_opt |-> None, set |-> FALSE,
              exc |-> "UnfeasibleBinPacking"]
        ELSE LET r == set_initial_bin_preferences(its, bns, best, SumCapacity(bns, best))
             IN  [best_bins |-> best, bins |-> r.bins,
                  min_bin_preference |-> r.min_bin_preference,
                  objective_value_of_fractional_opt |-> r.objective_value_of_fractional_opt,
                  set |-> TRUE, exc |-> ""]

\* -------------------------------------------------------------- rounding
\* [b for b in best_bins if b in item.possible_bins]
BestAndPossible(its, bns, best_bins, i) ==
    LET Possible(b) == BinIn(bns, b, its[i].possible_bins)
    IN  SelectSeq(best_bins, Possible)

\* max(lst, key=lambda b: b.preference): the first bin of the highest preference
MaxPreference(bns, lst) ==
    lst[CHOOSE k \in 1..Len(lst) :
          /\ \A j \in 1..Len(lst) : Val(bns[lst[j]].preference) <= Val(bns[lst[k]].preference)
          /\ \A j \in 1..(k - 1) : Val(bns[lst[j]].preference) < Val(bns[lst[k]].preference)]

\* the bin rounding picks for item i: a Bin index, or the error it raises
RoundingChoice(its, bns, best_bins, i) ==
    LET bp == BestAndPossible(its, bns, best_bins, i)
    IN  IF Len(bp) > 0 THEN [bin |-> MaxPreference(bns, bp), exc |-> ""]
        ELSE IF Len(its[i].possible_bins) = 1
             THEN [bin |-> its[i].possible_bins[1], exc |-> ""]
        ELSE IF Len(its[i].possible_bins) > 1
             THEN [bin |-> 0, exc |-> "NotImplementedError"]
        ELSE [bin |-> 0, exc |-> "UnfeasibleBinPacking"]

RECURSIVE RoundingLoop(_, _, _, _)
\* the loop of map_all_items_to_bins from item i on
RoundingLoop(its, bns, best_bins, i) ==
    IF i > Len(its) THEN [items |-> its, bins |-> bns, exc |-> ""]
    ELSE LET c == RoundingChoice(its, bns, best_bins, i)
         IN  IF c.exc # "" THEN [items |-> its, bins |-> bns, exc |-> c.exc]
             ELSE RoundingLoop([its EXCEPT ![i].mapped_to = Some(c.bin)],
                               [bns EXCEPT ![c.bin].mapped_here = Append(@, i)],
                               best_bins, i + 1)

\* map_all_items_to_bins
map_all_items_to_bins(its, bns, best_bins) == RoundingLoop(its, bns, best_bins, 1)

\* ----------------------------------------------------------- validator
RECURSIVE VariableCostLoop(_, _, _, _)
\* the first loop of check_bin_mapping from item i on: None when an item is
\* unmapped, else the sum of the variable costs added to obj
VariableCostLoop(its, bns, i, obj) ==
    IF i > Len(its) THEN Some(obj)
    ELSE IF its[i].mapped_to = None THEN None
    ELSE VariableCostLoop(its, bns, i + 1,
            obj + get_variable_cost_of_mapping(its, bns, Val(its[i].mapped_to), i))

RECURSIVE MembersLoop(_, _, _)
\* for item in bin.mapped_here: remove it from all_items, or fail when it is
\* not there any more
MembersLoop(its, members, all_items) ==
    IF members = <<>> THEN [all_items |-> all_items, found |-> TRUE]
    ELSE IF ItemIn(its, Head(members), all_items)
         THEN MembersLoop(its, Tail(members), ItemRemove(its, Head(members), all_items))
    ELSE [all_items |-> all_items, found |-> FALSE]

RECURSIVE BinsLoop(_, _, _, _, _)
\* the second loop of check_bin_mapping from bin b on, and the final test.
\* valid: the value returned; objective: objective_value_of_integer_solution
\* as the call leaves it; exc: the exception raised, if any
BinsLoop(its, bns, b, all_items, obj) ==
    IF b > Len(bns)
    THEN IF Len(all_items) # 0
         THEN [valid |-> FALSE, objective |-> Some(obj), exc |-> "ItemNotFoundInAnyBin"]
         ELSE [valid |-> TRUE, objective |-> Some(obj), exc |-> ""]
    ELSE IF is_overloaded(its, bns, b)
         THEN [valid |-> FALSE, objective |-> None, exc |-> ""]
    ELSE IF Len(bns[b].mapped_here) > 0
         THEN LET m == MembersLoop(its, bns[b].mapped_here, all_items)
              IN  IF m.found
                  THEN BinsLoop(its, bns, b + 1, m.all_items, obj + bns[b].fixed_cost)
                  ELSE [valid |-> FALSE, objective |-> Some(obj),
                        exc |-> "WrongItemMappingStructure"]
    ELSE BinsLoop(its, bns, b + 1, all_items, obj)

\* check_bin_mapping
check_bin_mapping(its, bns) ==
    LET v == VariableCostLoop(its, bns, 1, 0)
    IN  IF v = None THEN [valid |-> FALSE, objective |-> None, exc |-> ""]
        ELSE BinsLoop(its, bns, 1, [k \in 1..Len(its) |-> k], Val(v))

\* check_other_constraints
check_other_constraints(its, bns) ==
    \A i \in 1..Len(its) :
        its[i].loc # None => bns[Val(its[i].mapped_to)].id \in Val(its[i].loc)

\* ------------------------------------------------------------- improver
RECURSIVE OverloadingItems(_, _, _)
\* the mapped_here lists of the overloaded best bins, concatenated
OverloadingItems(its, bns, best_bins) ==
    IF best_bins = <<>> THEN <<>>
    ELSE (IF is_overloaded(its, bns, Head(best_bins))
          THEN bns[Head(best_bins)].mapped_here ELSE <<>>)
         \o OverloadingItems(its, bns, Tail(best_bins))

\* the test of the inner loop without does_item_fit
IsCandidateWithoutRoom(its, bns, i, b) ==
    /\ b # Val(its[i].mapped_to)
    /\ BinIn(bns, b, its[i].possible_bins)

\* the test of the inner loop of improve_item_to_bin_mappings
IsCandidate(its, bns, i, b) ==
    /\ does_item_fit(its, bns, b, i)
    /\ b # Val(its[i].mapped_to)
    /\ BinIn(bns, b, its[i].possible_bins)

\* cost_of_improvement of moving item i to bin b
cost_of_improvement(its, bns, i, b) ==
    get_variable_cost_of_mapping(its, bns, b, i)
      - get_variable_cost_of_mapping(its, bns, Val(its[i].mapped_to), i)

\* the (item, bin) pairs in the order the two nested loops visit them
VisitedPairs(overloading_items, best_bins) ==
    [n \in 1..(Len(overloading_items) * Len(best_bins)) |->
        [item |-> overloading_items[((n - 1) \div Len(best_bins)) + 1],
         bin  |-> best_bins[((n - 1) % Len(best_bins)) + 1]]]

\* first-improvement: the first candidate pair, whatever its cost
FirstImprovement(its, bns, pairs) ==
    LET cand == { n \in 1..Len(pairs) : IsCandidate(its, bns, pairs[n].item, pairs[n].bin) }
    IN  IF cand = {} THEN 0 ELSE CHOOSE n \in cand : \A m \in cand : n <= m

\* the pair the loops end with: the first candidate of the least cost
\* (a later pair replaces the choice only when strictly cheaper); 0: none
CheapestImprovement(its, bns, pairs) ==
    LET cand == { n \in 1..Len(pairs) : IsCandidate(its, bns, pairs[n].item, pairs[n].bin) }
        Cost(n) == cost_of_improvement(its, bns, pairs[n].item, pairs[n].bin)
    IN  IF cand = {} THEN 0
        ELSE CHOOSE n \in cand :
                \A m \in cand : Cost(n) < Cost(m) \/ (Cost(n) = Cost(m) /\ n <= m)

\* MoveItem without the removal from the old bin's mapped_here
MoveItemKeepingOldMembership(its, bns, i, target_bin) ==
    [items |-> [its EXCEPT ![i].mapped_to = Some(target_bin)],
     bins |-> [bns EXCEPT ![target_bin].mapped_here = Append(@, i)]]

\* the move itself: the item leaves the mapped_here of its mapped_to bin,
\* joins that of the target bin, and its mapped_to becomes the target bin
MoveItem(its, bns, i, target_bin) ==
    LET from == Val(its[i].mapped_to)
        removed == [bns EXCEPT ![from].mapped_here = ItemRemove(its, i, @)]
    IN  [items |-> [its EXCEPT ![i].mapped_to = Some(target_bin)],
         bins |-> [removed EXCEPT ![target_bin].mapped_here = Append(@, i)]]

\* improve_item_to_bin_mappings. moved: the value returned
improve_item_to_bin_mappings(its, bns, best_bins) ==
    LET overloading_items == OverloadingItems(its, bns, best_bins)
        pairs == VisitedPairs(overloading_items, best_bins)
        n == CheapestImprovement(its, bns, pairs)
    IN  IF Len(overloading_items) = 0 \/ n = 0
        THEN [items |-> its, bins |-> bns, moved |-> FALSE, exc |-> ""]
        ELSE LET item_to_be_moved == pairs[n].item
                 target_bin == pairs[n].bin
                 from == Val(its[item_to_be_moved].mapped_to)
             IN  IF ~ItemIn(its, item_to_be_moved, bns[from].mapped_here)
                 THEN [items |-> its, bins |-> bns, moved |-> FALSE,
                       exc |-> "ItemNotInMappedHere"]
                 ELSE LET m == MoveItem(its, bns, item_to_be_moved, target_bin)
                      IN  [items |-> m.items, bins |-> m.bins,
                           moved |-> TRUE, exc |-> ""]

\* ------------------------------------------------------------ admission
\* the first bin, in ascending filled_unit_cost order, that is not "in"
\* best_bins (0: every bin is)
NextNewBin(bns, best_bins) ==
    LET sorted_bins == get_bins_sorted_by_filled_unit_cost(bns)
        new == { k \in 1..Len(sorted_bins) : ~BinIn(bns, sorted_bins[k], best_bins) }
    IN  IF new = {} THEN 0
        ELSE sorted_bins[CHOOSE k \in new : \A j \in new : k <= j]

\* get_new_best_bins. can_add: the bool returned
get_new_best_bins(its, bns, best_bins, min_pref) ==
    LET c == check_bin_mapping(its, bns)
        b == NextNewBin(bns, best_bins)
        same == [best_bins |-> best_bins, bins |-> bns, can_add |-> FALSE,
                 min_bin_preference |-> min_pref,
                 objective_value_of_integer_solution |-> c.objective, exc |-> c.exc]
    IN  IF c.exc # "" \/ c.valid \/ b = 0 THEN same
        ELSE [best_bins |-> Append(best_bins, b),
              bins |-> [bns EXCEPT ![b].preference = Some(Val(min_pref) - epsilon)],
              can_add |-> TRUE,
              min_bin_preference |-> Some(Val(min_pref) - epsilon),
              objective_value_of_integer_solution |-> c.objective, exc |-> ""]

\* ------------------------------------------------------- the mapper
VARIABLES
    items,                                \* self.items
    bins,                                 \* self.bins
    objective_value_of_fractional_opt,    \* None or Some(value * EpsInv)
    objective_value_of_integer_solution,  \* None or Some(value)
    min_bin_preference,                   \* None or Some(value * EpsInv)
    infra, ns,                            \* the arguments of the running map()
    best_bins,                            \* map()'s local list of Bin indices
    mapping,                              \* map()'s result dict
    pc,                                   \* the stage map() is about to run
    raised,                               \* the exception map() ended with, or ""
    fresh,                                \* no map() call before the last one started
    checked,                              \* what check_infra and check_ns answered
    rounding_runs,                        \* map_all_items_to_bins calls of this map()
    expansions,                           \* admissions of this map()
    moves,                                \* improver moves of this map()
    seen,                                 \* what the inner loop of this map() has started
                                          \* an iteration with: <<items, bins, best_bins>>
    recurred                              \* the inner loop has started an iteration with
                                          \* what it had started an earlier one with

vars == <<items, bins, objective_value_of_fractional_opt,
          objective_value_of_integer_solution, min_bin_preference, infra, ns,
          best_bins, mapping, pc, raised, fresh, checked, rounding_runs, expansions,
          moves, seen, recurred>>

\* the mapper's fields other than the two lists
fields == <<objective_value_of_fractional_opt, objective_value_of_integer_solution,
            min_bin_preference>>

\* the per-call bookkeeping no stage changes
counters == <<fresh, checked, rounding_runs, expansions, moves>>

\* the record of the inner loop's iterations
history == <<seen, recurred>>

\* ConstructiveMapperFromFractional.__init__
Init ==
    /\ items = <<>>
    /\ bins = <<>>
    /\ objective_value_of_fractional_opt = None
    /\ objective_value_of_integer_solution = None
    /\ min_bin_preference = None
    /\ infra = <<>>
    /\ ns = <<>>
    /\ best_bins = <<>>
    /\ mapping = None
    /\ pc = "idle"
    /\ raised = ""
    /\ fresh = TRUE
    /\ checked = [infra |-> TRUE, ns |-> TRUE]
    /\ rounding_runs = 0
    /\ expansions = 0
    /\ moves = 0
    /\ seen = {}
    /\ recurred = FALSE

\* map() ends: by returning mapping (exc = "") or by raising exc
Finish(exc) ==
    /\ pc' = "done"
    /\ raised' = exc
    /\ infra' = <<>>
    /\ ns' = <<>>
    /\ best_bins' = <<>>

\* an outer loop that rounds again after every admission
AfterAdmissionRoundingAgain(can_add_next_bin) ==
    IF can_add_next_bin THEN "rounding" ELSE "verifying"

\* the stage that follows get_new_best_bins in map()'s outer loop
AfterAdmission(can_add_next_bin) ==
    IF can_add_next_bin THEN "improving" ELSE "verifying"

\* the stage that follows improve_item_to_bin_mappings in map()'s inner loop
AfterImprovement(anything_left_to_improve) ==
    IF anything_left_to_improve THEN "improving" ELSE "admitting"

\* the validation gate with "and" in the place of "or"
ValidationFailsBoth(infra_ok, ns_ok) == ~infra_ok /\ ~ns_ok

\* not check_infra(infra) or not check_ns(ns)
ValidationFails(infra_ok, ns_ok) == ~infra_ok \/ ~ns_ok

\* the head of map(): the mapping dict and the two checker calls
EnterMap(g_infra, g_ns, infra_ok, ns_ok) ==
    /\ fresh' = (pc = "idle")
    /\ checked' = [infra |-> infra_ok, ns |-> ns_ok]
    /\ mapping' = [worked |-> FALSE]
    /\ rounding_runs' = 0
    /\ expansions' = 0
    /\ moves' = 0
    /\ seen' = {}
    /\ recurred' = FALSE
    /\ IF ValidationFails(infra_ok, ns_ok)
       THEN Finish("")
       ELSE /\ pc' = "building"
            /\ raised' = ""
            /\ infra' = g_infra
            /\ ns' = g_ns
            /\ best_bins' = <<>>
    /\ UNCHANGED <<items, bins, fields>>

\* map(infra, ns) is called on the mapper just constructed
MapCall ==
    /\ pc = "idle"
    /\ \E g_infra \in InfraGraphs(MaxBins), g_ns \in ServiceGraphs(MaxItems),
          infra_ok \in BOOLEAN, ns_ok \in BOOLEAN :
            EnterMap(g_infra, g_ns, infra_ok, ns_ok)

\* map(infra, ns) is called again on a mapper whose earlier call has ended,
\* with a service graph that is not empty
MapAgain ==
    /\ pc = "done"
    /\ \E g_infra \in InfraGraphs(MaxReuse - Len(bins)),
          g_ns \in ServiceGraphs(MaxReuse - Len(items)),
          infra_ok \in BOOLEAN, ns_ok \in BOOLEAN :
            /\ Len(g_ns) >= 1
            /\ EnterMap(g_infra, g_ns, infra_ok, ns_ok)

\* the same call on a mapper that may come to hold MaxLongReuse Items and Bins
MapAgainLong ==
    /\ pc = "done"
    /\ \E g_infra \in InfraGraphs(MaxLongReuse - Len(bins)),
          g_ns \in ServiceGraphs(MaxLongReuse - Len(items)),
          infra_ok \in BOOLEAN, ns_ok \in BOOLEAN :
            /\ Len(g_ns) >= 1
            /\ EnterMap(g_infra, g_ns, infra_ok, ns_ok)

\* self.get_base_bin_packing_problem(infra, ns)
Build ==
    /\ pc = "building"
    /\ LET r == get_base_bin_packing_problem(items, bins, infra, ns)
       IN  /\ items' = r.items
           /\ bins' = r.bins
           /\ IF r.exc # "" THEN Finish(r.exc)
              ELSE pc' = "pruning" /\ UNCHANGED <<raised, infra, ns, best_bins>>
    /\ UNCHANGED <<fields, mapping, counters, history>>

\* the loop over self.pruning_steps_collection: [PruneLocalityConstraints()]
Prune ==
    /\ pc = "pruning"
    /\ items' = prune_possible_mappings(items, bins)
    /\ pc' = "relaxing"
    /\ UNCHANGED <<bins, fields, infra, ns, best_bins, mapping, raised, counters, history>>

\* best_bins = self.get_fist_best_bins()
Relax ==
    /\ pc = "relaxing"
    /\ LET r == get_fist_best_bins(items, bins)
       IN  /\ bins' = r.bins
           /\ IF r.set
              THEN /\ min_bin_preference' = r.min_bin_preference
                   /\ objective_value_of_fractional_opt' = r.objective_value_of_fractional_opt
              ELSE UNCHANGED <<min_bin_preference, objective_value_of_fractional_opt>>
           /\ IF r.exc # "" THEN Finish(r.exc)
              ELSE /\ pc' = "rounding"
                   /\ best_bins' = r.best_bins
                   /\ UNCHANGED <<raised, infra, ns>>
    /\ UNCHANGED <<items, objective_value_of_integer_solution, mapping, counters,
                   history>>

\* self.map_all_items_to_bins(best_bins, infra, ns)
Round ==
    /\ pc = "rounding"
    /\ LET r == map_all_items_to_bins(items, bins, best_bins)
       IN  /\ items' = r.items
           /\ bins' = r.bins
           /\ IF r.exc # "" THEN Finish(r.exc)
              ELSE pc' = "improving" /\ UNCHANGED <<raised, infra, ns, best_bins>>
    /\ rounding_runs' = rounding_runs + 1
    /\ UNCHANGED <<fields, mapping, fresh, checked, expansions, moves, history>>

\* anything_left_to_improve = self.improve_item_to_bin_mappings(best_bins, infra, ns)
Improve ==
    /\ pc = "improving"
    /\ LET r == improve_item_to_bin_mappings(items, bins, best_bins)
       IN  /\ items' = r.items
           /\ bins' = r.bins
           /\ IF r.exc # "" THEN Finish(r.exc) /\ seen' = {}
              ELSE /\ pc' = AfterImprovement(r.moved)
                   /\ seen' = seen \cup {<<items, bins, best_bins>>}
                   /\ UNCHANGED <<raised, infra, ns, best_bins>>
           /\ moves' = IF r.moved /\ moves < MaxMoves THEN moves + 1 ELSE moves
    /\ recurred' = (recurred \/ <<items, bins, best_bins>> \in seen)
    /\ UNCHANGED <<fields, mapping, fresh, checked, rounding_runs, expansions>>

\* best_bins, can_add_next_bin = self.get_new_best_bins(best_bins, infra, ns)
Admit ==
    /\ pc = "admitting"
    /\ LET r == get_new_best_bins(items, bins, best_bins, min_bin_preference)
       IN  /\ bins' = r.bins
           /\ min_bin_preference' = r.min_bin_preference
           /\ objective_value_of_integer_solution' = r.objective_value_of_integer_solution
           /\ expansions' = IF r.can_add THEN expansions + 1 ELSE expansions
           /\ IF r.exc # "" THEN Finish(r.exc) /\ seen' = {}
              ELSE /\ pc' = AfterAdmission(r.can_add)
                   /\ best_bins' = r.best_bins
                   /\ UNCHANGED <<raised, infra, ns, seen>>
    /\ UNCHANGED <<items, objective_value_of_fractional_opt, mapping, fresh, checked,
                   rounding_runs, moves, recurred>>

\* construct_output_mapping
construct_output_mapping(m) == [m EXCEPT !.worked = TRUE]

\* the tail of map(): check_bin_mapping, check_other_constraints, the result
Verify ==
    /\ pc = "verifying"
    /\ LET c == check_bin_mapping(items, bins)
       IN  /\ objective_value_of_integer_solution' = c.objective
           /\ IF c.exc # "" THEN Finish(c.exc) /\ UNCHANGED mapping
              ELSE IF ~c.valid THEN Finish("") /\ UNCHANGED mapping
              ELSE IF ~check_other_constraints(items, bins)
                   THEN Finish("OtherConstraintViolated") /\ UNCHANGED mapping
              ELSE Finish("") /\ mapping' = construct_output_mapping(mapping)
    /\ seen' = {}
    /\ UNCHANGED <<items, bins, objective_value_of_fractional_opt, min_bin_preference,
                   counters, recurred>>

Next ==
    \/ MapCall
    \/ MapAgain
    \/ Build
    \/ Prune
    \/ Relax
    \/ Round
    \/ Improve
    \/ Admit
    \/ Verify

Spec == Init /\ [][Next]_vars

\* the same mapper, reused for more Items and Bins
NextLongReuse ==
    \/ MapCall
    \/ MapAgainLong
    \/ Build
    \/ Prune
    \/ Relax
    \/ Round
    \/ Improve
    \/ Admit
    \/ Verify

SpecLongReuse == Init /\ [][NextLongReuse]_vars

\* ------------------------------------------------------------- claims
\* map() has returned its mapping dict
Returned == pc = "done" /\ raised = ""

\* map() has returned a mapping with worked = True
Worked == Returned /\ mapping.worked

\* map() is between the end of rounding and its return or raise
Repairing == pc \in {"improving", "admitting", "verifying"}

\* map() has ended after its rounding stage had completed
EndedAfterRounding ==
    /\ pc = "done"
    /\ rounding_runs >= 1
    /\ raised \notin {"NotImplementedError", "UnfeasibleBinPacking"}

\* the number of times item i occurs in the mapped_here lists of all bins
Occurrences(i) ==
    Cardinality({ p \in UNION { { <<b, k>> : k \in 1..Len(bins[b].mapped_here) } :
                                b \in 1..Len(bins) } :
                  bins[p[1]].mapped_here[p[2]] = i })

\* C1: when map() on a fresh mapper returns worked=true, every bin kept in
\* the problem has total_load <= capacity, total_load being the sum of the
\* weights of the items in its mapped_here.
C1_LoadWithinCapacity ==
    (fresh /\ Worked) =>
        \A b \in 1..Len(bins) : SumWeights(items, bins[b].mapped_here) <= bins[b].capacity

\* C1 witness: a fresh solve returned worked=true after the improver moved an
\* item out of an overloaded bin, and two bins host items
C1_Witness ==
    /\ fresh /\ Worked
    /\ moves >= 1
    /\ \E b, c \in 1..Len(bins) :
          b # c /\ bins[b].mapped_here # <<>> /\ bins[c].mapped_here # <<>>

\* C2: in a solve on a fresh mapper, from the end of rounding on (after every
\* improver move and every admission) each item is in the mapped_here of
\* exactly one bin, exactly once, that bin is its mapped_to, and no
\* internal-consistency exception is raised.
C2_OneBinPerItem ==
    /\ (fresh /\ (Repairing \/ EndedAfterRounding)) =>
          \A i \in 1..Len(items) :
             /\ items[i].mapped_to # None
             /\ Occurrences(i) = 1
             /\ \E k \in 1..Len(bins[Val(items[i].mapped_to)].mapped_here) :
                   bins[Val(items[i].mapped_to)].mapped_here[k] = i
    /\ fresh => raised \notin {"WrongItemMappingStructure", "ItemNotFoundInAnyBin",
                               "ItemNotInMappedHere"}

\* C2 witness: a fresh solve ended after at least one improver move and one
\* admission, with two items in two different bins
C2_Witness ==
    /\ fresh /\ EndedAfterRounding
    /\ moves >= 1
    /\ expansions >= 1
    /\ \E i, j \in 1..Len(items) : items[i].mapped_to # items[j].mapped_to

\* the least demand among the nodes of a service graph that is not empty
MinDemand(g_ns) ==
    CHOOSE w \in { g_ns[k].weight : k \in 1..Len(g_ns) } :
        \A k \in 1..Len(g_ns) : w <= g_ns[k].weight

\* C3 (as claimed, for a solve on a fresh mapper): global infeasibility always
\* ends map() with a raised UnfeasibleBinPacking: when no bin of the
\* infrastructure has capacity >= the smallest item's weight (building), when
\* the total capacity of the kept bins is below the total item weight
\* (relaxing), and when some item has an empty possible_bins after pruning
\* (rounding).
C3_InfeasibilityRaisesUnfeasible ==
    [][ /\ (/\ fresh /\ pc = "building"
            /\ ns # <<>>
            /\ \A k \in 1..Len(infra) : infra[k].capacity < MinDemand(ns))
           => (pc' = "done" /\ raised' = "UnfeasibleBinPacking")
        /\ (/\ fresh /\ pc = "relaxing"
            /\ SumCapacity(bins, [k \in 1..Len(bins) |-> k]) < total_item_weight(items))
           => (pc' = "done" /\ raised' = "UnfeasibleBinPacking")
        /\ (/\ fresh /\ pc = "rounding"
            /\ \E i \in 1..Len(items) : items[i].possible_bins = <<>>)
           => (pc' = "done" /\ raised' = "UnfeasibleBinPacking") ]_vars

\* C4: if check_infra or check_ns answers false, map() returns worked=false
\* at once, without raising and without running any stage: items, bins,
\* preferences and objective values are left as they were.
C4_RejectedInputDoesNothing ==
    [][ (pc \in {"idle", "done"} /\ pc' # "idle" /\ (~checked'.infra \/ ~checked'.ns))
          => /\ pc' = "done"
             /\ raised' = ""
             /\ mapping' = [worked |-> FALSE]
             /\ items' = items
             /\ bins' = bins
             /\ objective_value_of_fractional_opt' = objective_value_of_fractional_opt
             /\ objective_value_of_integer_solution' = objective_value_of_integer_solution
             /\ min_bin_preference' = min_bin_preference ]_vars

\* C4 witness: a call rejected by the validation gate has returned on a
\* mapper that holds items, bins and objective values of an earlier call
C4_Witness ==
    /\ Returned
    /\ ~checked.infra \/ ~checked.ns
    /\ ~mapping.worked
    /\ items # <<>>
    /\ bins # <<>>
    /\ objective_value_of_integer_solution # None

\* C5 (as claimed): rounding runs once per expansion cycle, so whenever the
\* improver is about to run, map_all_items_to_bins has run once more than
\* get_new_best_bins has expanded the best-bin set.
C5_RoundingPerExpansion == pc = "improving" => rounding_runs = expansions + 1

\* C5 (amended): map_all_items_to_bins runs exactly once per map() call,
\* before the first improver call and before any admission; after an
\* expansion the improver runs again on the enlarged best-bin set without a
\* new rounding.
C5_RoundingOncePerSolve ==
    /\ rounding_runs <= 1
    /\ Repairing => rounding_runs = 1
    /\ pc = "rounding" => (rounding_runs = 0 /\ expansions = 0)
    /\ pc \in {"building", "pruning", "relaxing"} => rounding_runs = 0

\* C5 witness: the improver is about to run on a best-bin set that an
\* admission has enlarged
C5_Witness ==
    /\ pc = "improving"
    /\ expansions >= 1
    /\ rounding_runs = 1
    /\ Len(best_bins) >= 2

\* C6 (as claimed): at the start of building, in every map() call, the item
\* set and the bin set are empty.
C6_EmptyAtStartOfBuilding == pc = "building" => (items = <<>> /\ bins = <<>>)

\* every Bin object of the mapper is in the best-bin set
AllBinsAreBest == \A b \in 1..Len(bins) : \E k \in 1..Len(best_bins) : best_bins[k] = b

\* some bin of the mapper is overloaded
SomeBinOverloaded ==
    \E b \in 1..Len(bins) : SumWeights(items, bins[b].mapped_here) > bins[b].capacity

\* C7 (as claimed): when the repair loop has stalled with every bin in the
\* best-bin set and some bin overloaded, get_new_best_bins signals no
\* expansion and map() then returns worked=false without raising.
C7_StallReturnsNotWorked ==
    [][ /\ (pc = "admitting" /\ AllBinsAreBest /\ SomeBinOverloaded)
           => (pc' = "verifying" /\ best_bins' = best_bins /\ expansions' = expansions)
        /\ (pc = "verifying" /\ AllBinsAreBest /\ SomeBinOverloaded)
           => (pc' = "done" /\ raised' = "" /\ ~mapping'.worked) ]_vars

\* the variable part of the integral objective: unit_cost x weight over the
\* mapped items
VariableCost(its, bns) ==
    LET mapped == [k \in 1..Len(its) |->
                     IF its[k].mapped_to = None THEN 0
                     ELSE bns[Val(its[k].mapped_to)].unit_cost * its[k].weight]
        Sum[n \in 0..Len(its)] == IF n = 0 THEN 0 ELSE mapped[n] + Sum[n - 1]
    IN  Sum[Len(its)]

\* the fixed part: fixed_cost of every bin that hosts an item
FixedCost(bns) ==
    LET Sum[n \in 0..Len(bns)] ==
            IF n = 0 THEN 0
            ELSE (IF bns[n].mapped_here # <<>> THEN bns[n].fixed_cost ELSE 0) + Sum[n - 1]
    IN  Sum[Len(bns)]

\* the integral objective of the current assignment
IntegralObjective(its, bns) == VariableCost(its, bns) + FixedCost(bns)

\* C8 (as claimed): an improver move never increases the integral objective.
C8_MovesNeverIncreaseObjective ==
    [][ (pc = "improving" /\ pc' = "improving")
          => IntegralObjective(items', bins') <= IntegralObjective(items, bins) ]_vars

\* the (item, alternative bin) pairs a move may be chosen from: the item is
\* hosted in an overloaded bin of the best-bin set; the alternative is in the
\* best-bin set, is not the item's current bin, is in its possible_bins and
\* has room for it
ValidMoves ==
    { p \in (1..Len(items)) \X (1..Len(bins)) :
        /\ \E k \in 1..Len(best_bins) :
              /\ SumWeights(items, bins[best_bins[k]].mapped_here) > bins[best_bins[k]].capacity
              /\ \E m \in 1..Len(bins[best_bins[k]].mapped_here) :
                    bins[best_bins[k]].mapped_here[m] = p[1]
        /\ \E k \in 1..Len(best_bins) : best_bins[k] = p[2]
        /\ items[p[1]].mapped_to # Some(p[2])
        /\ BinIn(bins, p[2], items[p[1]].possible_bins)
        /\ bins[p[2]].capacity >=
              SumWeights(items, bins[p[2]].mapped_here) + items[p[1]].weight }

\* alt.unit_cost x weight - current.unit_cost x weight
MoveDelta(p) ==
    bins[p[2]].unit_cost * items[p[1]].weight
      - bins[Val(items[p[1]].mapped_to)].unit_cost * items[p[1]].weight

\* C8 (amended): an improver move changes the variable part of the integral
\* objective by exactly the least delta over all valid (item, alternative)
\* pairs; that delta can be positive, so the objective can grow.
C8_MoveCostsLeastDelta ==
    [][ (pc = "improving" /\ pc' = "improving")
          => \E p \in ValidMoves :
                /\ VariableCost(items', bins') - VariableCost(items, bins) = MoveDelta(p)
                /\ \A q \in ValidMoves : MoveDelta(p) <= MoveDelta(q) ]_vars

\* C8 witness: the improver has moved an item and the integral objective is
\* now greater than the fractional optimum's
C8_Witness ==
    /\ pc = "improving"
    /\ moves >= 1
    /\ objective_value_of_fractional_opt # None
    /\ IntegralObjective(items, bins) * EpsInv > Val(objective_value_of_fractional_opt)

\* the instance of Scenario D on a fresh mapper: bins of capacity 4 (unit_cost
\* 5) and 10 (unit_cost 1) without fixed cost, two items of weight 3 without
\* locality constraint
ScenarioD ==
    /\ fresh
    /\ Len(bins) = 2
    /\ bins[1].capacity = 4 /\ bins[1].unit_cost = 5 /\ bins[1].fixed_cost = 0
    /\ bins[2].capacity = 10 /\ bins[2].unit_cost = 1 /\ bins[2].fixed_cost = 0
    /\ Len(items) = 2
    /\ \A i \in 1..2 : items[i].weight = 3 /\ items[i].loc = None

\* C9 (as claimed): in Scenario D the best-bin set holds both bins and the
\* solve ends worked=true with integral objective 18.
C9_ScenarioDAsClaimed ==
    /\ (ScenarioD /\ pc = "rounding") => Len(best_bins) = 2
    /\ (ScenarioD /\ pc = "done") =>
          (Worked /\ objective_value_of_integer_solution = Some(18))

\* C9 (amended): in Scenario D the best-bin set is the capacity-10 bin alone,
\* rounding puts both items there, no bin is overloaded, the improver makes no
\* move, no bin is admitted, and the solve ends worked=true with integral
\* objective 6.
C9_ScenarioD ==
    ScenarioD =>
        /\ pc \in {"rounding", "improving", "admitting", "verifying"} => best_bins = <<2>>
        /\ (Repairing \/ pc = "done") =>
              /\ \A i \in 1..2 : items[i].mapped_to = Some(2)
              /\ bins[1].mapped_here = <<>>
              /\ bins[2].mapped_here = <<1, 2>>
              /\ ~SomeBinOverloaded
        /\ moves = 0
        /\ expansions = 0
        /\ pc = "done" => (Worked /\ objective_value_of_integer_solution = Some(6))

\* C9 witness: the solve of Scenario D has returned
C9_Witness == ScenarioD /\ pc = "done" /\ Worked

\* C10: the best-bin set get_fist_best_bins returns is the minimal prefix of
\* the bins in ascending filled_unit_cost order whose cumulative capacity is
\* >= the total item weight: it is in ascending order, no bin outside it is
\* cheaper than a bin in it, it covers the demand, and without its last bin
\* it does not.
C10_MinimalCoveringPrefix ==
    pc = "rounding" =>
        LET n == Len(best_bins)
            inside == { best_bins[k] : k \in 1..n }
            Cheaper(a, b) == CostLess(filled_unit_cost(bins[a]), filled_unit_cost(bins[b]))
        IN  /\ n >= 1
            /\ Cardinality(inside) = n
            /\ inside \subseteq 1..Len(bins)
            /\ \A j, k \in 1..n : j < k => ~Cheaper(best_bins[k], best_bins[j])
            /\ \A b \in (1..Len(bins)) \ inside : \A a \in inside : ~Cheaper(b, a)
            /\ SumCapacity(bins, best_bins) >= total_item_weight(items)
            /\ SumCapacity(bins, SubSeq(best_bins, 1, n - 1)) < total_item_weight(items)

\* C10 witness: get_fist_best_bins has returned a prefix of two bins or more
\* that leaves a bin out
C10_Witness ==
    /\ pc = "rounding"
    /\ Len(best_bins) >= 2
    /\ Len(bins) > Len(best_bins)

\* C11 (as claimed): the dict map() returns with worked=true carries, besides
\* "worked", the item-to-bin assignment and the two objective values; the
\* dict it returns with worked=false carries "worked" alone.
C11_ResultCarriesAssignment ==
    /\ Worked => \E assignment, integral, fractional \in (DOMAIN mapping) \ {"worked"} :
                    Cardinality({assignment, integral, fractional}) = 3
    /\ (Returned /\ ~mapping.worked) => DOMAIN mapping = {"worked"}

\* the number of items hosted in overloaded bins of the best-bin set, an item
\* counted once for every mapped_here entry it has there
HostedInOverloadedBest(its, bns, best) ==
    LET over == { b \in { best[k] : k \in 1..Len(best) } :
                    SumWeights(its, bns[b].mapped_here) > bns[b].capacity }
    IN  Cardinality(UNION { { <<b, k>> : k \in 1..Len(bns[b].mapped_here) } : b \in over })

\* C12 (as claimed): every improver move strictly decreases the number of
\* items hosted in overloaded bins of the best-bin set, and the bin the item
\* moved to is not overloaded, so the inner loop of map() reaches its fixed
\* point after finitely many moves.
C12_MovesDecreaseOverloadedHosting ==
    [][ (pc = "improving" /\ pc' = "improving")
          => /\ HostedInOverloadedBest(items', bins', best_bins')
                  < HostedInOverloadedBest(items, bins, best_bins)
             /\ \A i \in 1..Len(items) :
                   items'[i].mapped_to # items[i].mapped_to
                     => SumWeights(items', bins'[Val(items'[i].mapped_to)].mapped_here)
                          <= bins'[Val(items'[i].mapped_to)].capacity ]_vars

\* the best-bin set holds no Bin twice
NoBinTwice(best) == \A j, k \in 1..Len(best) : best[j] = best[k] => j = k

\* C13 (as claimed): the admission loop's bookkeeping is bounded, and so the
\* loops of map() end: the inner loop, which runs on nothing but items, bins
\* and best_bins, never starts an iteration with what it has started an
\* earlier iteration of the same solve with (from there it would repeat
\* itself for ever).
C13_SolveEnds ==
    [][ /\ (pc = "admitting" /\ pc' # "done")
           => \/ best_bins' = best_bins /\ expansions' = expansions
              \/ /\ Len(best_bins') = Len(best_bins) + 1
                 /\ SubSeq(best_bins', 1, Len(best_bins)) = best_bins
                 /\ \A k \in 1..Len(best_bins) : best_bins[k] # best_bins'[Len(best_bins')]
                 /\ expansions' = expansions + 1
        /\ (pc \in {"improving", "verifying"} /\ pc' # "done") => best_bins' = best_bins
        /\ (Repairing \/ pc = "rounding")
           => /\ NoBinTwice(best_bins)
              /\ expansions <= Len(bins) - (Len(best_bins) - expansions)
        /\ ~recurred' ]_vars

\* the number of times item i occurs in a mapped_here list
CountIn(mapped_here, i) == Cardinality({ k \in 1..Len(mapped_here) : mapped_here[k] = i })

\* items, bins are taken to items', bins' by the one move of pair p:
\* the item's mapped_to becomes the alternative bin, the item leaves the
\* mapped_here of its current bin once and is appended to the alternative
\* bin's, and nothing else changes
IsMoveOf(p) ==
    LET i == p[1]
        alt == p[2]
        current == Val(items[i].mapped_to)
    IN  /\ items' = [items EXCEPT ![i].mapped_to = Some(alt)]
        /\ Len(bins') = Len(bins)
        /\ \A b \in 1..Len(bins) :
              /\ [bins'[b] EXCEPT !.mapped_here = <<>>] = [bins[b] EXCEPT !.mapped_here = <<>>]
              /\ b \notin {alt, current} => bins'[b].mapped_here = bins[b].mapped_here
        /\ bins'[alt].mapped_here = Append(bins[alt].mapped_here, i)
        /\ \A j \in 1..Len(items) :
              CountIn(bins'[current].mapped_here, j)
                = CountIn(bins[current].mapped_here, j) - (IF j = i THEN 1 ELSE 0)

\* C14 (as claimed): one call of improve_item_to_bin_mappings changes nothing and returns
\* False when no valid (item, alternative) pair exists (ValidMoves is empty);
\* otherwise it returns True after exactly one move, of a valid pair whose
\* delta is the least over all valid pairs, that changes no other item's
\* assignment and no other bin's membership.
C14_OneCheapestValidMove ==
    [][ pc = "improving"
          => IF ValidMoves = {}
             THEN /\ items' = items
                  /\ bins' = bins
                  /\ pc' = "admitting"
             ELSE /\ pc' = "improving"
                  /\ \E p \in ValidMoves :
                        /\ \A q \in ValidMoves : MoveDelta(p) <= MoveDelta(q)
                        /\ IsMoveOf(p) ]_vars

\* bin b of bns is overloaded: the weights of its mapped_here exceed its capacity
Overloaded(its, bns, b) == SumWeights(its, bns[b].mapped_here) > bns[b].capacity

\* C15: no step of the repair and admission loop (an improver call, moving or
\* not, or a get_new_best_bins call) makes a bin overloaded that was not: the
\* set of overloaded bins never gains a member.
C15_NoNewOverload ==
    [][ (pc = "improving" \/ pc = "admitting" \/ pc = "verifying")
          => (/\ Len(bins') = Len(bins)
              /\ \A b \in 1..Len(bins) :
                    Overloaded(items', bins', b) => Overloaded(items, bins, b)) ]_vars

\* C15 witness: after a move and an admission one bin is still overloaded and
\* another bin, which hosts an item, is not
C15_Witness ==
    /\ Repairing
    /\ moves >= 1
    /\ expansions >= 1
    /\ \E b, c \in 1..Len(bins) :
          /\ Overloaded(items, bins, b)
          /\ ~Overloaded(items, bins, c)
          /\ bins[c].mapped_here # <<>>

\* the bins of item i's possible_bins, as a set
PossibleSet(i) == { items[i].possible_bins[k] : k \in 1..Len(items[i].possible_bins) }

\* the best-bin set
BestSet == { best_bins[k] : k \in 1..Len(best_bins) }

\* rounding can assign item i: a possible bin is a best bin, or the item has
\* exactly one possible bin
Assignable(i) == PossibleSet(i) \cap BestSet # {} \/ Cardinality(PossibleSet(i)) = 1

\* the first item rounding cannot assign (0: it can assign every item)
FirstNotAssignable ==
    LET stuck == { i \in 1..Len(items) : ~Assignable(i) }
    IN  IF stuck = {} THEN 0 ELSE CHOOSE i \in stuck : \A j \in stuck : i <= j

\* the step gives item i the bin the rounding rule names, and the bin hosts it
RoundedByRule(i) ==
    /\ items'[i].mapped_to # None
    /\ LET b == Val(items'[i].mapped_to)
           both == PossibleSet(i) \cap BestSet
       IN  /\ both # {} => /\ b \in both
                           /\ \A c \in both :
                                 Val(bins[c].preference) <= Val(bins[b].preference)
           /\ both = {} => PossibleSet(i) = {b}
           /\ Cardinality({ k \in 1..Len(bins'[b].mapped_here) : bins'[b].mapped_here[k] = i })
                = Cardinality({ k \in 1..Len(bins[b].mapped_here) : bins[b].mapped_here[k] = i }) + 1

\* C16: rounding decides each item in turn: with a bin in both possible_bins
\* and the best-bin set the item goes to such a bin of the highest preference;
\* with none and exactly one possible bin it goes to that bin; with none and
\* more than one possible bin rounding fails with an error that is not
\* UnfeasibleBinPacking; with no possible bin it fails with UnfeasibleBinPacking
C16_RoundingRule ==
    [][ pc = "rounding"
          => LET f == FirstNotAssignable
             IN  /\ \A i \in 1..(IF f = 0 THEN Len(items) ELSE f - 1) : RoundedByRule(i)
                 /\ f = 0 => pc' = "improving"
                 /\ f # 0 => /\ pc' = "done"
                             /\ PossibleSet(f) = {} => raised' = "UnfeasibleBinPacking"
                             /\ PossibleSet(f) # {}
                                  => raised' \notin {"", "UnfeasibleBinPacking"} ]_vars

RECURSIVE SumPreference(_)
\* the sum of the preferences of a list of bins, in units of epsilon
SumPreference(lst) ==
    IF lst = <<>> THEN 0 ELSE Val(bins[Head(lst)].preference) + SumPreference(Tail(lst))

RECURSIVE FractionalCost(_)
\* the sum over a list of bins of fixed_cost + preference * unit_cost, in
\* units of epsilon
FractionalCost(lst) ==
    IF lst = <<>> THEN 0
    ELSE bins[Head(lst)].fixed_cost * EpsInv
           + Val(bins[Head(lst)].preference) * bins[Head(lst)].unit_cost
           + FractionalCost(Tail(lst))

\* C17: after the relaxation every best bin but the last has preference =
\* capacity and the last has total item weight minus the capacity of the
\* others; the preferences sum to the total item weight, each is <= its
\* bin's capacity, min_bin_preference is their minimum and the fractional
\* objective is the sum of fixed_cost + preference * unit_cost over them
C17_RelaxationPreferences ==
    pc = "rounding"
      => LET n == Len(best_bins)
             Pref(k) == Val(bins[best_bins[k]].preference)
         IN  /\ n >= 1
             /\ \A k \in 1..n : bins[best_bins[k]].preference # None
             /\ \A k \in 1..(n - 1) : Pref(k) = bins[best_bins[k]].capacity * EpsInv
             /\ Pref(n) = (total_item_weight(items) - SumCapacity(bins, SubSeq(best_bins, 1, n - 1))) * EpsInv
             /\ SumPreference(best_bins) = total_item_weight(items) * EpsInv
             /\ \A k \in 1..n : Pref(k) <= bins[best_bins[k]].capacity * EpsInv
             /\ min_bin_preference # None
             /\ \E k \in 1..n : Val(min_bin_preference) = Pref(k)
             /\ \A k \in 1..n : Val(min_bin_preference) <= Pref(k)
             /\ objective_value_of_fractional_opt = Some(FractionalCost(best_bins))

\* the relaxation has chosen two best bins or more, one of them with a fixed
\* cost, and the last is filled in part
C17_Witness ==
    /\ pc = "rounding"
    /\ Len(best_bins) >= 2
    /\ Val(bins[best_bins[Len(best_bins)]].preference)
         < bins[best_bins[Len(best_bins)]].capacity * EpsInv
    /\ \E k \in 1..Len(best_bins) : bins[best_bins[k]].fixed_cost > 0

\* the bins that are not in the best-bin set
NotYetBest == (1..Len(bins)) \ BestSet

\* the step admits bin b: b is appended to the best bins with preference
\* min_bin_preference - epsilon, which becomes min_bin_preference and lies
\* strictly below the preference of every bin that was a best bin before
AdmitsBin(b) ==
    /\ best_bins' = Append(best_bins, b)
    /\ bins'[b].preference = Some(Val(min_bin_preference) - epsilon)
    /\ min_bin_preference' = bins'[b].preference
    /\ \A c \in BestSet : Val(bins'[b].preference) < Val(bins'[c].preference)

\* C18: get_new_best_bins adds a bin only when the current mapping is
\* invalid; when it is, and a bin is not yet in the best-bin set, it adds a
\* bin of the lowest filled_unit_cost among those, with preference =
\* min_bin_preference - epsilon, which becomes min_bin_preference; every
\* admitted bin's preference is strictly lower than the preference of every
\* bin that entered the best-bin set before it
C18_AdmissionRule ==
    [][ (pc = "admitting" /\ check_bin_mapping(items, bins).exc = "")
          => /\ pc' # "done"
             /\ IF check_bin_mapping(items, bins).valid \/ NotYetBest = {}
                THEN best_bins' = best_bins /\ bins' = bins
                       /\ min_bin_preference' = min_bin_preference
                ELSE \E b \in NotYetBest :
                        /\ \A c \in NotYetBest :
                              ~CostLess(filled_unit_cost(bins[c]), filled_unit_cost(bins[b]))
                        /\ AdmitsBin(b)
             /\ \A j, k \in 1..Len(best_bins') :
                   (j < k /\ k > Len(best_bins') - expansions')
                     => Val(bins'[best_bins'[k]].preference)
                          < Val(bins'[best_bins'[j]].preference) ]_vars

\* C19: from the end of rounding on, every item's mapped_to bin is one of
\* the item's possible_bins; check_other_constraints returns True whenever
\* map() reaches it, and map() never raises OtherConstraintViolated
C19_MappedToIsPossible ==
    /\ Repairing => \A i \in 1..Len(items) :
                       /\ items[i].mapped_to # None
                       /\ Val(items[i].mapped_to) \in PossibleSet(i)
    /\ (pc = "verifying" /\ check_bin_mapping(items, bins).exc = ""
          /\ check_bin_mapping(items, bins).valid)
         => check_other_constraints(items, bins)
    /\ raised # "OtherConstraintViolated"

\* map() is about to call check_other_constraints, after a move and an
\* admission, with an item whose locality has pruned bins away
C19_Witness ==
    /\ pc = "verifying"
    /\ check_bin_mapping(items, bins).exc = ""
    /\ check_bin_mapping(items, bins).valid
    /\ moves >= 1
    /\ expansions >= 1
    /\ \E i \in 1..Len(items) : items[i].loc # None /\ PossibleSet(i) # 1..Len(bins)

\* item i's possible_bins restricted to the bins whose id its locality allows
RestrictedToLocality(i) ==
    LET IsAllowed(b) == bins[b].id \in Val(items[i].loc)
    IN  SelectSeq(items[i].possible_bins, IsAllowed)

\* C20: locality pruning only removes bins: an item with a locality keeps
\* exactly its possible_bins restricted to the bins whose id is allowed, an
\* item without one keeps its possible_bins, whatever the other items lose,
\* and the bin list is unchanged; after pruning no step of the solve adds a
\* bin to any possible_bins
C20_PruningOnlyRemoves ==
    [][ /\ pc = "pruning"
          => /\ bins' = bins
             /\ Len(items') = Len(items)
             /\ \A i \in 1..Len(items) :
                   items'[i] = [items[i] EXCEPT !.possible_bins =
                                   IF items[i].loc # None THEN RestrictedToLocality(i)
                                   ELSE items[i].possible_bins]
        /\ (pc = "relaxing" \/ pc = "rounding" \/ Repairing)
          => /\ Len(items') = Len(items)
             /\ \A i \in 1..Len(items) : items'[i].possible_bins = items[i].possible_bins ]_vars

\* pruning has just run on two items or more: locality has taken bins from
\* one and left it a bin, and an item without locality has every bin
C20_Witness ==
    /\ pc = "relaxing"
    /\ \E i, j \in 1..Len(items) :
          /\ items[i].loc # None
          /\ items[i].possible_bins # <<>>
          /\ PossibleSet(i) # 1..Len(bins)
          /\ items[j].loc = None
          /\ PossibleSet(j) = 1..Len(bins)

\* some item of the mapper is unmapped
SomeItemUnmapped == \E i \in 1..Len(items) : items[i].mapped_to = None

\* C21: a call of check_bin_mapping returns False and leaves the integral
\* objective None if an item is unmapped or a bin is overloaded; otherwise it
\* returns True and sets the integral objective to the sum over the items of
\* unit_cost(assigned bin) * weight plus the fixed_cost of every bin with a
\* member, whatever the objective was before the call
C21_ValidatorResult ==
    [][ (pc = "admitting" \/ pc = "verifying")
          => /\ IF SomeItemUnmapped \/ SomeBinOverloaded
                THEN /\ objective_value_of_integer_solution' = None
                     /\ ~(pc' = "done" /\ raised' # "")
                     /\ pc = "verifying" => ~mapping'.worked
                ELSE /\ objective_value_of_integer_solution'
                          = Some(IntegralObjective(items, bins))
                     /\ ~(pc' = "done" /\ raised' # "")
                     /\ pc = "verifying" => mapping'.worked
                     /\ pc = "admitting" => (pc' = "verifying" /\ best_bins' = best_bins)
             /\ \A i \in 1..Len(items) :
                   check_bin_mapping([items EXCEPT ![i].mapped_to = None], bins)
                     = [valid |-> FALSE, objective |-> None, exc |-> ""] ]_vars

====
